---- MODULE Spec2Model ----
(***************************************************************************)
(* Model of branches/raft3/RaftCmdLine.py: the command line driver of      *)
(* RAFT.  process_args loads the filter and processor scripts, then        *)
(* run_parse_process_loop hands every selected file to parse_one_file,     *)
(* which initializes the scripts and streams the file's records through    *)
(* the adapter, the filters and the processors.                            *)
(*                                                                         *)
(* One action is one step of the driver between two calls into code it     *)
(* does not own (a script's top level, a script capability, the parser     *)
(* stream, the adapter).  Those calls are the inputs: each may return any  *)
(* of a small set of values or raise.  The attributes of the argparse      *)
(* namespace are immutable and each is read once (getattr), so each is     *)
(* drawn at the step that reads it; of a list of file arguments the length *)
(* is drawn then, and each item when the loop over the list reaches it.    *)
(***************************************************************************)
EXTENDS Integers, Sequences, FiniteSets, TLC

\* ---------------------------------------------------------------- bounds
\* longest --capture-filter / --process-capture list drawn
MaxScripts == 2
\* longest list of file arguments drawn for one format
MaxFileArgs == 2
\* most records a parser stream yields for one file
MaxRecords == 2
\* most top-level bindings of a source unit given to the loader on its own
MaxBindings == 3

\* ------------------------------------------------------ python values
NoneVal == [kind |-> "None"]
FalseVal == [kind |-> "False"]
Unbound == [kind |-> "unbound"]

\* a Python int
PyInt(n) == [kind |-> "int", n |-> n]

\* bool(v) as the `if not result` test of parse_one_file applies it
Truthy(v) == v.kind \notin {"None", "False"}

SeqsUpTo(S, n) == UNION {[1..m -> S] : m \in 0..n}

\* a Python list
List(items) == [kind |-> "list", items |-> items]

ListsUpTo(S, n) == {List(items) : items \in SeqsUpTo(S, n)}

\* ------------------------------------------------- the script files
\* What a script file on disk holds: whether it can be opened, whether its
\* top level compiles and runs, and the bindings it leaves in local_ns, in
\* definition order.  A binding is a class ("type", with the attributes
\* dir() lists on an instance), a def ("function") or anything else.
Attr(name, underscore, method) ==
    [name |-> name, underscore |-> underscore, method |-> method]

Binding(key, type, attrs) == [key |-> key, type |-> type, attrs |-> attrs]

ScriptFiles ==
    [p \in {"filt.py", "both.py", "proc.py", "bad.py"} |->
        CASE p = "filt.py" ->
               [raises |-> FALSE,
                local_ns |-> << Binding("Plugin", "type",
                                   {Attr("initialize", FALSE, TRUE),
                                    Attr("capture_filter", FALSE, TRUE),
                                    Attr("_connect", TRUE, TRUE),
                                    Attr("name", FALSE, FALSE)}) >>]
          [] p = "both.py" ->
               [raises |-> FALSE,
                local_ns |-> << Binding("initialize", "function", {}),
                                Binding("capture_filter", "function", {}),
                                Binding("process_capture", "function", {}) >>]
          [] p = "proc.py" ->
               [raises |-> FALSE,
                local_ns |-> << Binding("VERSION", "other", {}),
                                Binding("process_capture", "function", {}) >>]
          [] OTHER ->
               [raises |-> TRUE, local_ns |-> << >>]]

\* paths that may be listed on the command line; "gone.py" is no file
ScriptPaths == DOMAIN ScriptFiles \cup {"gone.py"}

\* ------------------------------------------------ load_script_file
EmptyFunctions == [n \in {} |-> NoneVal]

Put(f, key, value) ==
    [n \in DOMAIN f \cup {key} |-> IF n = key THEN value ELSE f[n]]

\* a function of a script's local_ns or a bound method of its instance;
\* `file` tells the callables of different scripts apart
Callable(kind, of, name, file) ==
    [kind |-> kind, of |-> of, name |-> name, file |-> file]

NewScriptEnv(filename) ==
    [filename |-> filename,
     valid |-> TRUE,
     initialized |-> FALSE,
     instance |-> FalseVal,
     functions |-> EmptyFunctions]

\* lines 164-168 without the test of line 165: every bound method of the
\* instance, the underscore-prefixed ones too
AddMethodsAll(functions, key, attrs, filename) ==
    LET names == {a.name : a \in {x \in attrs : x.method}}
    IN [n \in DOMAIN functions \cup names |->
           IF n \in names THEN Callable("method", key, n, filename)
           ELSE functions[n]]

\* lines 164-168: the public bound methods of a fresh instance of the class
RECURSIVE AddMethods(_, _, _, _)
AddMethods(functions, key, attrs, filename) ==
    IF attrs = {} THEN functions
    ELSE LET a == CHOOSE x \in attrs : TRUE
             rest == AddMethods(functions, key, attrs \ {a}, filename)
         IN IF ~a.underscore /\ a.method
            THEN Put(rest, a.name, Callable("method", key, a.name, filename))
            ELSE rest

\* lines 159-170: one pass over local_ns, in order
RECURSIVE Inspect(_, _, _)
Inspect(script_env, local_ns, i) ==
    IF i > Len(local_ns) THEN script_env
    ELSE LET b == local_ns[i]
             next ==
               CASE b.type = "type" ->
                      [script_env EXCEPT
                         !.instance = [kind |-> "instance", of |-> b.key],
                         !.functions = AddMethods(@, b.key, b.attrs, script_env.filename)]
                 [] b.type = "function" ->
                      [script_env EXCEPT
                         !.functions = Put(@, b.key,
                                Callable("function", "local_ns", b.key,
                                         script_env.filename))]
                 [] OTHER -> script_env
         IN Inspect(next, local_ns, i + 1)

\* load_script_file without the look-up of lines 144-145
NeverCached(scripts, filename) == FALSE

\* `filename in self.scripts`, line 144
Cached(scripts, filename) == filename \in DOMAIN scripts

\* open() at line 146 fails for a path that is no file; compile/exec at
\* lines 157-158 fail for a source that does not compile or run
OpenFails(filename) == filename \notin DOMAIN ScriptFiles

ExecFails(filename) == ~OpenFails(filename) /\ ScriptFiles[filename].raises

\* the handle lines 147-170 build for a source that loads
LoadedEnv(filename) ==
    Inspect(NewScriptEnv(filename), ScriptFiles[filename].local_ns, 1)

\* dict.get(name): the callable, or None
Get(functions, name) ==
    IF name \in DOMAIN functions THEN functions[name] ELSE NoneVal

\* ------------------------------------------------ the command line
\* --db: absent, or a name typed with or without the .raftdb suffix
DbArgs ==
    {NoneVal} \cup [kind : {"str"}, stem : {"old", "new"}, suffixed : BOOLEAN]

\* the .raftdb files that exist
DbFiles == {"old"}

\* what the command line says, whatever process_args makes of it: --db is
\* given and no file <stem>.raftdb exists
NamesNoFile(db_filename) ==
    db_filename # NoneVal /\ db_filename.stem \notin DbFiles

\* lines 59-60
WithSuffix(db_filename) ==
    IF db_filename.suffixed THEN db_filename
    ELSE [db_filename EXCEPT !.suffixed = TRUE]

\* os.path.exists(db_filename), for a name that carries the suffix
DbExists(db_filename) == db_filename.suffixed /\ db_filename.stem \in DbFiles

\* the check made only on a name that came with the suffix: a name given
\* without it is taken as it is
DbMissingOnlySuffixed(db_filename, do_create) ==
    /\ db_filename # NoneVal
    /\ db_filename.suffixed
    /\ ~DbExists(db_filename)
    /\ ~do_create

\* line 58-64: whether process_args returns 1 before doing anything else
DbMissing(db_filename, do_create) ==
    /\ db_filename # NoneVal
    /\ ~DbExists(WithSuffix(db_filename))
    /\ ~do_create

\* what --capture-filter / --process-capture may hold: None when the flag
\* is absent (nargs='*'), else a list of script paths
ScriptArgs == {NoneVal} \cup ListsUpTo(ScriptPaths, MaxScripts)

\* the formats in the iteration order of the dict, lines 37-46
FILE_PROCESSOR_DEFINTIONS ==
    << "raft_capture_xml", "burp_log", "burp_xml", "burp_vuln_xml",
       "burp_state", "appscan_xml", "webscarab", "paros_message" >>

\* file arguments: files that exist, a path that does not, a glob
FileArgs == {"a.ws", "nosuch.ws", "*.ws"}

ExistingFiles == {"a.ws", "b.msg"}

\* '*' in filearg, line 95
HasStar(filearg) == filearg = "*.ws"

\* os.path.exists(filearg), line 97
PathExists(filearg) == filearg \in ExistingFiles

\* the file arguments the flag of a format may list: any of FileArgs for
\* --webscarab, a file or a missing path for --paros-message
FormatFiles(name) ==
    CASE name = "webscarab" -> FileArgs
      [] name = "paros_message" -> {"b.msg", "nosuch.msg"}
      [] OTHER -> {}

\* a list of len file arguments; the loop of line 94 reads its items one at
\* a time, and an item is drawn when the loop reaches it
ArgList(len) == [kind |-> "list", len |-> len]

\* the values drawn for the flag of a format: None with the flag absent for
\* every format, lists of file arguments for --webscarab, one file argument
\* for --paros-message
FormatArgs(name) ==
    CASE name = "webscarab" -> {NoneVal} \cup {ArgList(n) : n \in 0..MaxFileArgs}
      [] name = "paros_message" -> {NoneVal, ArgList(1)}
      [] OTHER -> {NoneVal}

\* ------------------------------------------- parser stream and adapter
\* the k-th raw record the format's parser yields for a file
RawRecord(filename, k) == [kind |-> "raw", file |-> filename, n |-> k]

\* ParseAdapter.adapt: the canonical capture of a raw record
Adapt(result) ==
    [kind |-> "capture", id |-> << result.file, result.n >>, by |-> "adapter"]

\* a capture a script hands back after rewriting the one it was given
Rewritten(capture, who) == [capture EXCEPT !.by = who]

\* what a capture_filter or process_capture call may return
Returns(callable, capture) == {NoneVal, Rewritten(capture, callable.file)}

\* ---------------------------------------------------------------- state
VARIABLES
    pc,                       \* where the driver stands
    retval,                   \* what process_args returned, once it has
    scripts,                  \* self.scripts: path -> script_env
    capture_filter_scripts,   \* self.capture_filter_scripts: handles, by path
    process_capture_scripts,  \* self.process_capture_scripts: handles, by path
    pa,                       \* locals of process_args
    rl,                       \* locals of run_parse_process_loop
    pf,                       \* locals of parse_one_file
    args,                     \* the script lists of the command line, as read
    execs,                    \* path -> times its source was compiled and run
    printed,                  \* errors printed by an except clause
    error,                    \* the exception that ended the run, if any: where
                              \* it was raised, and for one raised under the try
                              \* of parse_one_file the record it was raised at
                              \* and the file arguments of the format still to come
    handed,                   \* parse_one_file calls of the run so far
    initCalls,                \* path -> initialize calls of the run so far
    initLog,                  \* initialize calls for the current file
    fileLog,                  \* per-record counts for the current file
    recLog,                   \* adapter and capability calls for the current
                              \* record, until the stream is asked for the next
    stderr,                   \* what process_args wrote to sys.stderr about the
                              \* command line (lines 63 and 85), if anything
    db_missing,               \* whether the command line named a database file
                              \* that does not exist and did not ask to create it
    local_ns                  \* the bindings of a source unit given to the
                              \* loader on its own

vars == << pc, retval, scripts, capture_filter_scripts, process_capture_scripts,
           pa, rl, pf, args, execs, printed, error, handed, initCalls,
           initLog, fileLog, recLog, stderr, db_missing, local_ns >>

self == << scripts, capture_filter_scripts, process_capture_scripts >>

history == << execs, printed, error, handed, initCalls, initLog, fileLog, recLog >>

\* what the steps after the mode is selected leave alone
aside == << stderr, db_missing, local_ns >>

NoLocals == [kind |-> "none"]

NoFileLog == [file |-> "", pulled |-> 0, adapted |-> 0, filtered |-> 0,
              skipped |-> 0, passed |-> 0, completed |-> FALSE]

Init ==
    /\ pc = "process_args"
    /\ retval = NoneVal
    /\ scripts = [p \in {} |-> NoneVal]
    /\ capture_filter_scripts = << >>
    /\ process_capture_scripts = << >>
    /\ pa = NoLocals
    /\ rl = NoLocals
    /\ pf = NoLocals
    /\ args = [capture_filter |-> Unbound, process_capture |-> Unbound]
    /\ execs = [p \in ScriptPaths |-> 0]
    /\ printed = 0
    /\ error = NoneVal
    /\ handed = 0
    /\ initCalls = [p \in ScriptPaths |-> 0]
    /\ initLog = << >>
    /\ fileLog = NoFileLog
    /\ recLog = << >>
    /\ stderr = ""
    /\ db_missing = FALSE
    /\ local_ns = << >>

\* an exception leaves process_args: its frame and those under it are
\* unwound, and the run is over
Raise(what) ==
    /\ pc' = "raised"
    /\ error' = what
    /\ pa' = NoLocals
    /\ rl' = NoLocals
    /\ pf' = NoLocals

\* ------------------------------------------------------- process_args
\* lines 52-64: the flags, and the check of the database file
ProcessArgs ==
    /\ pc = "process_args"
    /\ \E do_create \in BOOLEAN, do_import \in BOOLEAN, do_parse \in BOOLEAN,
          db_filename \in DbArgs :
          /\ db_missing' = (NamesNoFile(db_filename) /\ ~do_create)
          /\ IF DbMissing(db_filename, do_create)
             THEN /\ pc' = "returned"
                  /\ retval' = PyInt(1)
                  /\ stderr' = "DB file does not exist"
                  /\ pa' = pa
             ELSE /\ pc' = "capture_filter"
                  /\ retval' = retval
                  /\ stderr' = stderr
                  /\ pa' = [do_import |-> do_import, do_parse |-> do_parse,
                            arg |-> NoneVal, i |-> 0]
    /\ UNCHANGED << self, rl, pf, args, local_ns, history >>

\* where process_args goes once a script list is done
AfterList(list) == IF list = "capture_filter" THEN "process_capture" ELSE "mode"

\* lines 67-69 and 74-76: an empty list of handles, and the flag's value
ReadScriptArg(list) ==
    /\ pc = list
    /\ \E arg \in ScriptArgs :
          /\ args' = [args EXCEPT ![list] = arg]
          /\ pa' = [pa EXCEPT !.arg = arg, !.i = 1]
          /\ pc' = IF arg = NoneVal \/ arg.items = << >>
                   THEN AfterList(list) ELSE "load_" \o list
    /\ IF list = "capture_filter"
       THEN capture_filter_scripts' = << >> /\ UNCHANGED process_capture_scripts
       ELSE process_capture_scripts' = << >> /\ UNCHANGED capture_filter_scripts
    /\ UNCHANGED << retval, scripts, rl, pf, aside, history >>

ReadCaptureFilterArg == ReadScriptArg("capture_filter")

ReadProcessCaptureArg == ReadScriptArg("process_capture")

\* lines 144-145 and 146-177: load_script_file(filename) returning a handle;
\* a cached path is answered from self.scripts, any other is compiled and run
LoadScriptFile(filename) ==
    IF Cached(scripts, filename)
    THEN /\ scripts' = scripts
         /\ execs' = execs
    ELSE /\ scripts' = Put(scripts, filename, LoadedEnv(filename))
         /\ execs' = [execs EXCEPT ![filename] = @ + 1]

\* whether load_script_file(filename) raises
LoadRaises(filename) ==
    /\ ~Cached(scripts, filename)
    /\ OpenFails(filename) \/ ExecFails(filename)

\* lines 70-71 and 77-78: one turn of the loop that appends the handle
LoadScript(list) ==
    /\ pc = "load_" \o list
    /\ LET filearg == pa.arg.items[pa.i] IN
          /\ ~LoadRaises(filearg)
          /\ LoadScriptFile(filearg)
          /\ IF list = "capture_filter"
             THEN /\ capture_filter_scripts' = Append(capture_filter_scripts, filearg)
                  /\ UNCHANGED process_capture_scripts
             ELSE /\ process_capture_scripts' = Append(process_capture_scripts, filearg)
                  /\ UNCHANGED capture_filter_scripts
    /\ pa' = [pa EXCEPT !.i = @ + 1]
    /\ pc' = IF pa.i = Len(pa.arg.items) THEN AfterList(list) ELSE pc
    /\ UNCHANGED << retval, rl, pf, args, aside, printed, error, handed, initCalls,
                    initLog, fileLog, recLog >>

LoadCaptureFilter == LoadScript("capture_filter")

LoadProcessCapture == LoadScript("process_capture")

\* load_script_file with line 176 moved up, before the try: the handle of a
\* source that fails is in the cache when the error leaves
LoadScriptCachesFailure(list) ==
    /\ pc = "load_" \o list
    /\ LET filearg == pa.arg.items[pa.i] IN
          /\ LoadRaises(filearg)
          /\ IF OpenFails(filearg)
             THEN /\ printed' = printed
                  /\ execs' = execs
                  /\ scripts' = scripts
                  /\ Raise([kind |-> "error", in |-> "open", file |-> filearg])
             ELSE /\ printed' = printed + 1
                  /\ execs' = [execs EXCEPT ![filearg] = @ + 1]
                  /\ scripts' = Put(scripts, filearg, NewScriptEnv(filearg))
                  /\ Raise([kind |-> "error", in |-> "exec", file |-> filearg])
    /\ UNCHANGED << retval, capture_filter_scripts, process_capture_scripts,
                    args, aside, handed, initCalls, initLog, fileLog, recLog >>

\* load_script_file raising: open() fails outside the try (line 146), or the
\* source fails to compile or run, which lines 172-174 print and re-raise;
\* line 176 is not reached
LoadScriptRaises(list) ==
    /\ pc = "load_" \o list
    /\ LET filearg == pa.arg.items[pa.i] IN
          /\ LoadRaises(filearg)
          /\ IF OpenFails(filearg)
             THEN /\ printed' = printed
                  /\ execs' = execs
                  /\ Raise([kind |-> "error", in |-> "open", file |-> filearg])
             ELSE /\ printed' = printed + 1
                  /\ execs' = [execs EXCEPT ![filearg] = @ + 1]
                  /\ Raise([kind |-> "error", in |-> "exec", file |-> filearg])
    /\ UNCHANGED << retval, self, args, aside, handed, initCalls,
                    initLog, fileLog, recLog >>

LoadCaptureFilterRaises == LoadScriptRaises("capture_filter")

LoadProcessCaptureRaises == LoadScriptRaises("process_capture")

\* lines 80-87: the mode
SelectMode ==
    /\ pc = "mode"
    /\ IF ~pa.do_import /\ pa.do_parse
       THEN /\ pc' = "next_format"
            /\ rl' = [fmt |-> 1, arg |-> NoneVal, i |-> 0, filearg |-> "",
                      file_list |-> Unbound, fi |-> 0]
            /\ retval' = retval
            /\ stderr' = stderr
       ELSE /\ pc' = "returned"
            /\ rl' = rl
            /\ retval' = PyInt(0)
            /\ stderr' = IF pa.do_import THEN stderr ELSE "No recognized options"
    /\ UNCHANGED << self, pa, pf, args, db_missing, local_ns, history >>

\* ---------------------------------------------- run_parse_process_loop
\* where the loops of lines 90-100 stand once parse_one_file has returned:
\* the next file of file_list, else the next file argument, else the next
\* format
AfterFile(l) ==
    IF l.fi < Len(l.file_list.items) THEN [l EXCEPT !.fi = @ + 1]
    ELSE IF l.i < l.arg.len THEN [l EXCEPT !.i = @ + 1, !.fi = 0]
    ELSE [l EXCEPT !.fmt = @ + 1, !.arg = NoneVal, !.i = 0, !.fi = 0]

PcOfLoop(l) ==
    IF l.fi > 0 THEN "next_file"
    ELSE IF l.i > 0 THEN "next_filearg"
    ELSE "next_format"

\* the loops move on from the file parse_one_file returned from: the
\* per-file histories start over
ForgetFile ==
    /\ initLog' = << >>
    /\ fileLog' = NoFileLog
    /\ recLog' = << >>

\* lines 90-93: the next format and the value of its flag
NextFormat ==
    /\ pc = "next_format"
    /\ rl.fmt <= Len(FILE_PROCESSOR_DEFINTIONS)
    /\ \E arg \in FormatArgs(FILE_PROCESSOR_DEFINTIONS[rl.fmt]) :
          IF arg = NoneVal \/ arg.len = 0
          THEN /\ rl' = [rl EXCEPT !.fmt = @ + 1]
               /\ pc' = pc
          ELSE /\ rl' = [rl EXCEPT !.arg = arg, !.i = 1]
               /\ pc' = "next_filearg"
    /\ ForgetFile
    /\ UNCHANGED << retval, self, pa, pf, args, aside, execs, printed, error, handed,
                    initCalls >>

\* line 90 with the formats exhausted: run_parse_process_loop returns, and
\* process_args returns 0 (line 87)
LoopDone ==
    /\ pc = "next_format"
    /\ rl.fmt > Len(FILE_PROCESSOR_DEFINTIONS)
    /\ pc' = "returned"
    /\ retval' = PyInt(0)
    /\ ForgetFile
    /\ UNCHANGED << self, pa, rl, pf, args, aside, execs, printed, error, handed,
                    initCalls >>

\* lines 95-98: file_list after the if/elif; with neither branch taken the
\* local keeps what an earlier turn bound it to
FileList(l, filearg) ==
    IF PathExists(filearg) THEN List(<< filearg >>) ELSE l.file_list

\* lines 94-99 for a file argument without '*'
FileArg ==
    /\ pc = "next_filearg"
    /\ \E filearg \in FormatFiles(FILE_PROCESSOR_DEFINTIONS[rl.fmt]) :
          /\ ~HasStar(filearg)
          /\ FileList(rl, filearg) # Unbound
          /\ rl' = [rl EXCEPT !.filearg = filearg,
                               !.file_list = FileList(rl, filearg), !.fi = 1]
    /\ pc' = "next_file"
    /\ ForgetFile
    /\ UNCHANGED << retval, self, pa, pf, args, aside, execs, printed, error, handed,
                    initCalls >>

\* line 96: the module glob is not imported, so the name lookup raises
\* NameError
FileArgGlobRaises ==
    /\ pc = "next_filearg"
    /\ \E filearg \in FormatFiles(FILE_PROCESSOR_DEFINTIONS[rl.fmt]) :
          /\ HasStar(filearg)
          /\ Raise([kind |-> "error", in |-> "glob", file |-> filearg])
    /\ ForgetFile
    /\ UNCHANGED << retval, self, args, aside, execs, printed, handed,
                    initCalls >>

\* line 99 with file_list never bound: UnboundLocalError
FileListUnbound ==
    /\ pc = "next_filearg"
    /\ \E filearg \in FormatFiles(FILE_PROCESSOR_DEFINTIONS[rl.fmt]) :
          /\ ~HasStar(filearg)
          /\ FileList(rl, filearg) = Unbound
          /\ Raise([kind |-> "error", in |-> "file_list", file |-> filearg])
    /\ ForgetFile
    /\ UNCHANGED << retval, self, args, aside, execs, printed, handed,
                    initCalls >>

\* ------------------------------------------------------ parse_one_file
\* the handles built anew for the file: the flag is cleared and what the
\* load collected is lost
ResetRebuilds(s) == [p \in DOMAIN s |-> NewScriptEnv(p)]

\* lines 107-108
ResetInitialized(s) == [p \in DOMAIN s |-> [s[p] EXCEPT !.initialized = FALSE]]

\* the stream started right after the loop over the filter scripts
StageAfterFilters(stage) ==
    IF stage = "enter" /\ capture_filter_scripts # << >> THEN "init_filters"
    ELSE "pull"

\* where parse_one_file goes once the list at `stage` is done
StageAfter(stage) ==
    IF stage = "enter" /\ capture_filter_scripts # << >> THEN "init_filters"
    ELSE IF stage \in {"enter", "init_filters"} /\ process_capture_scripts # << >>
    THEN "init_processors"
    ELSE "pull"

\* lines 99-100 and 103-108: the call, up to the loops over the scripts
NextFile ==
    /\ pc = "next_file"
    /\ pf' = [filename |-> rl.file_list.items[rl.fi],
              filters |-> << >>, processors |-> << >>, j |-> 1, n |-> 0,
              result |-> NoneVal, capture |-> NoneVal, skip |-> FALSE, k |-> 0]
    /\ scripts' = ResetInitialized(scripts)
    /\ pc' = StageAfter("enter")
    /\ handed' = handed + 1
    /\ initLog' = << >>
    /\ fileLog' = [NoFileLog EXCEPT !.file = rl.file_list.items[rl.fi]]
    /\ recLog' = << >>
    /\ UNCHANGED << retval, capture_filter_scripts, process_capture_scripts,
                    pa, rl, args, aside, execs, printed, error, initCalls >>

\* the test without the look at the capability: initialize is taken to be
\* there
NeedsInitializeAssumed(script_env) == ~script_env.initialized

\* the test without the flag: every listing of a script initializes it again
NeedsInitializeIgnoringFlag(script_env) ==
    Truthy(Get(script_env.functions, "initialize"))

\* lines 111 and 119: `initializer and not script_env['initialized']`
NeedsInitialize(script_env) ==
    /\ Truthy(Get(script_env.functions, "initialize"))
    /\ ~script_env.initialized

\* one list of scripts for both loops: every script is taken in both roles
ScriptListBoth(stage) == capture_filter_scripts \o process_capture_scripts

ScriptList(stage) ==
    IF stage = "init_filters" THEN capture_filter_scripts
    ELSE process_capture_scripts

Capability(stage) ==
    IF stage = "init_filters" THEN "capture_filter" ELSE "process_capture"

\* the capability put in front of the list instead of at its end
CollectedInFront(list, script_env, name) ==
    IF Truthy(Get(script_env.functions, name))
    THEN << script_env.functions[name] >> \o list
    ELSE list

\* lines 114-116 and 122-124: the list with the script's capability
\* appended, when it has one
Collected(list, script_env, name) ==
    IF Truthy(Get(script_env.functions, name))
    THEN Append(list, script_env.functions[name])
    ELSE list

\* lines 110-116 and 118-124: one turn of a loop over the scripts, with
\* initialize returning
InitScript(stage) ==
    /\ pc = stage
    /\ LET ref == ScriptList(stage)[pf.j]
           script_env == scripts[ref]
       IN /\ IF NeedsInitialize(script_env)
             THEN /\ scripts' = [scripts EXCEPT ![ref].initialized = TRUE]
                  /\ initLog' = Append(initLog, [who |-> ref, arg |-> pf.filename])
                  /\ initCalls' = [initCalls EXCEPT ![ref] = @ + 1]
             ELSE UNCHANGED << scripts, initLog, initCalls >>
          /\ pf' = IF stage = "init_filters"
                   THEN [pf EXCEPT !.filters = Collected(@, script_env, Capability(stage)),
                                   !.j = IF pf.j = Len(ScriptList(stage)) THEN 1 ELSE @ + 1]
                   ELSE [pf EXCEPT !.processors = Collected(@, script_env, Capability(stage)),
                                   !.j = IF pf.j = Len(ScriptList(stage)) THEN 1 ELSE @ + 1]
    /\ pc' = IF pf.j = Len(ScriptList(stage)) THEN StageAfter(stage) ELSE pc
    /\ UNCHANGED << retval, capture_filter_scripts, process_capture_scripts,
                    pa, rl, args, aside, execs, printed, error, handed, fileLog, recLog >>

InitFilterScript == InitScript("init_filters")

InitProcessorScript == InitScript("init_processors")

\* lines 112 and 120 with initialize raising: the call is outside the try,
\* nothing prints, the flag is not set
InitScriptRaises(stage) ==
    /\ pc = stage
    /\ LET ref == ScriptList(stage)[pf.j] IN
          /\ NeedsInitialize(scripts[ref])
          /\ initLog' = Append(initLog, [who |-> ref, arg |-> pf.filename])
          /\ initCalls' = [initCalls EXCEPT ![ref] = @ + 1]
          /\ Raise([kind |-> "error", in |-> "initialize", file |-> ref])
    /\ UNCHANGED << retval, self, args, aside, execs, printed, handed,
                    fileLog, recLog >>

InitFilterScriptRaises == InitScriptRaises("init_filters")

InitProcessorScriptRaises == InitScriptRaises("init_processors")

\* the except clause without its raise: the error is printed and the loop
\* goes on with the next record
ExceptAndContinue(what) ==
    /\ printed' = printed + 1
    /\ error' = what
    /\ pc' = "pull"
    /\ UNCHANGED << pa, rl, pf >>

\* lines 138-141: the except clause prints the error once and re-raises it
Except(what) ==
    /\ printed' = printed + 1
    /\ Raise(what)

Call(op, who, arg, ret) == [op |-> op, who |-> who, arg |-> arg, ret |-> ret]

Raised == [kind |-> "raised"]

\* line 126: the stream yields its next record
PullRecord ==
    /\ pc = "pull"
    /\ pf.n < MaxRecords
    /\ pf' = [pf EXCEPT !.n = @ + 1, !.result = RawRecord(pf.filename, pf.n + 1)]
    /\ fileLog' = [fileLog EXCEPT !.pulled = @ + 1]
    /\ recLog' = << >>
    /\ pc' = "adapt"
    /\ UNCHANGED << retval, self, pa, rl, args, aside, execs, printed, error, handed,
                    initCalls, initLog >>

\* line 126 with the stream exhausted: parse_one_file returns to the loops
StreamExhausted ==
    /\ pc = "pull"
    /\ fileLog' = [fileLog EXCEPT !.completed = TRUE]
    /\ recLog' = << >>
    /\ rl' = AfterFile(rl)
    /\ pc' = PcOfLoop(AfterFile(rl))
    /\ pf' = NoLocals
    /\ UNCHANGED << retval, self, pa, args, aside, execs, printed, error, handed,
                    initCalls, initLog >>

\* a parser error taken for the end of the file: printed, and the loops go
\* on with the next file
StreamRaisesNextFile ==
    /\ pc = "pull"
    /\ printed' = printed + 1
    /\ error' = [kind |-> "error", in |-> "stream", file |-> pf.filename,
                 rec |-> pf.n + 1, left |-> rl.arg.len - rl.i]
    /\ recLog' = << >>
    /\ rl' = AfterFile(rl)
    /\ pc' = PcOfLoop(AfterFile(rl))
    /\ pf' = NoLocals
    /\ UNCHANGED << retval, self, pa, args, aside, execs, handed, initCalls, initLog,
                    fileLog >>

\* line 126 with the parser raising
StreamRaises ==
    /\ pc = "pull"
    /\ Except([kind |-> "error", in |-> "stream", file |-> pf.filename,
               rec |-> pf.n + 1, left |-> rl.arg.len - rl.i])
    /\ recLog' = << >>
    /\ UNCHANGED << retval, self, args, aside, execs, handed, initCalls,
                    initLog, fileLog >>

\* where the record goes after the adapter or after filter k: the next
\* filter, else the processors, else the next record
AfterFilter(f, k) ==
    IF k < Len(f.filters) THEN "filter"
    ELSE IF f.processors # << >> THEN "process"
    ELSE "pull"

\* the adapter left out when no filter and no processor is there to take
\* the capture
AdaptRecordWhenNeeded ==
    /\ pc = "adapt"
    /\ IF pf.filters = << >> /\ pf.processors = << >>
       THEN /\ pf' = [pf EXCEPT !.skip = FALSE, !.k = 1]
            /\ recLog' = recLog
            /\ fileLog' = [fileLog EXCEPT !.passed = @ + 1]
       ELSE /\ pf' = [pf EXCEPT !.capture = Adapt(pf.result), !.skip = FALSE, !.k = 1]
            /\ recLog' = Append(recLog, Call("adapt", "adapter", pf.result,
                                             Adapt(pf.result)))
            /\ fileLog' = [fileLog EXCEPT !.adapted = @ + 1]
    /\ pc' = AfterFilter(pf, 0)
    /\ UNCHANGED << retval, self, pa, rl, args, aside, execs, printed, error, handed,
                    initCalls, initLog >>

\* lines 127-128
AdaptRecord ==
    /\ pc = "adapt"
    /\ pf' = [pf EXCEPT !.capture = Adapt(pf.result), !.skip = FALSE, !.k = 1]
    /\ recLog' = Append(recLog, Call("adapt", "adapter", pf.result, Adapt(pf.result)))
    /\ fileLog' = [fileLog EXCEPT
                     !.adapted = @ + 1,
                     !.passed = IF AfterFilter(pf, 0) = "pull" THEN @ + 1 ELSE @]
    /\ pc' = AfterFilter(pf, 0)
    /\ UNCHANGED << retval, self, pa, rl, args, aside, execs, printed, error, handed,
                    initCalls, initLog >>

\* an adapter error caught per record: printed, the record dropped, and
\* the stream asked for the next one
AdaptRaisesSkipsRecord ==
    /\ pc = "adapt"
    /\ recLog' = Append(recLog, Call("adapt", "adapter", pf.result, Raised))
    /\ printed' = printed + 1
    /\ error' = [kind |-> "error", in |-> "adapt", file |-> pf.filename,
                 rec |-> pf.n, left |-> rl.arg.len - rl.i]
    /\ fileLog' = [fileLog EXCEPT !.skipped = @ + 1]
    /\ pc' = "pull"
    /\ UNCHANGED << retval, self, pa, rl, pf, args, aside, execs, handed,
                    initCalls, initLog >>

\* line 127 with the adapter raising
AdaptRaises ==
    /\ pc = "adapt"
    /\ recLog' = Append(recLog, Call("adapt", "adapter", pf.result, Raised))
    /\ Except([kind |-> "error", in |-> "adapt", file |-> pf.filename,
               rec |-> pf.n, left |-> rl.arg.len - rl.i])
    /\ UNCHANGED << retval, self, args, aside, execs, handed, initCalls,
                    initLog, fileLog >>

\* a chain: the second and later filters are called with what the filter
\* before them returned
FilterArgumentChained(f) == IF f.k > 1 THEN f.result ELSE f.capture

\* line 130: what a filter is called with
FilterArgument(f) == f.capture

\* the processors called with `result`, the value the last call returned
ProcessorArgumentResult(f) == f.result

\* line 136: what a processor is called with
ProcessorArgument(f) == f.capture

\* the test as `if result is False`: a filter returning None does not skip
SkipsOnlyOnFalse(result) == result = FalseVal

\* line 131: `if not result`
Skips(result) == ~Truthy(result)

\* lines 129-133: one filter returning
ApplyFilter ==
    /\ pc = "filter"
    /\ LET capture_filter == pf.filters[pf.k] IN
       \E ret \in Returns(capture_filter, FilterArgument(pf)) :
          /\ recLog' = Append(recLog, Call("capture_filter", capture_filter.file,
                                           FilterArgument(pf), ret))
          /\ IF Skips(ret)
             THEN /\ pf' = [pf EXCEPT !.result = ret, !.skip = TRUE]
                  /\ pc' = "pull"
             ELSE /\ pf' = [pf EXCEPT !.result = ret, !.k = IF pf.k < Len(pf.filters)
                                                         THEN @ + 1 ELSE 1]
                  /\ pc' = AfterFilter(pf, pf.k)
          /\ fileLog' = [fileLog EXCEPT
                           !.filtered = IF pf.k = 1 THEN @ + 1 ELSE @,
                           !.skipped = IF Skips(ret) THEN @ + 1 ELSE @,
                           !.passed = IF ~Skips(ret) /\ AfterFilter(pf, pf.k) = "pull"
                                      THEN @ + 1 ELSE @]
    /\ UNCHANGED << retval, self, pa, rl, args, aside, execs, printed, error, handed,
                    initCalls, initLog >>

\* line 130 with the filter raising
FilterRaises ==
    /\ pc = "filter"
    /\ recLog' = Append(recLog, Call("capture_filter", pf.filters[pf.k].file,
                                     FilterArgument(pf), Raised))
    /\ Except([kind |-> "error", in |-> "capture_filter", file |-> pf.filename,
               rec |-> pf.n, left |-> rl.arg.len - rl.i])
    /\ UNCHANGED << retval, self, args, aside, execs, handed, initCalls,
                    initLog, fileLog >>

\* the loop over the processors with the test of the filter loop: a falsy
\* return ends the record
ApplyProcessorStopsOnFalsy ==
    /\ pc = "process"
    /\ LET processor == pf.processors[pf.k] IN
       \E ret \in Returns(processor, ProcessorArgument(pf)) :
          LET last == pf.k = Len(pf.processors) \/ Skips(ret) IN
          /\ recLog' = Append(recLog, Call("process_capture", processor.file,
                                           ProcessorArgument(pf), ret))
          /\ pf' = [pf EXCEPT !.result = ret, !.k = IF last THEN 1 ELSE @ + 1]
          /\ pc' = IF last THEN "pull" ELSE pc
          /\ fileLog' = [fileLog EXCEPT !.passed = IF last THEN @ + 1 ELSE @]
    /\ UNCHANGED << retval, self, pa, rl, args, aside, execs, printed, error, handed,
                    initCalls, initLog >>

\* lines 135-136: one processor returning
ApplyProcessor ==
    /\ pc = "process"
    /\ LET processor == pf.processors[pf.k] IN
       \E ret \in Returns(processor, ProcessorArgument(pf)) :
          /\ recLog' = Append(recLog, Call("process_capture", processor.file,
                                           ProcessorArgument(pf), ret))
          /\ pf' = [pf EXCEPT !.result = ret,
                              !.k = IF pf.k < Len(pf.processors) THEN @ + 1 ELSE 1]
    /\ pc' = IF pf.k < Len(pf.processors) THEN pc ELSE "pull"
    /\ fileLog' = [fileLog EXCEPT
                     !.passed = IF pf.k < Len(pf.processors) THEN @ ELSE @ + 1]
    /\ UNCHANGED << retval, self, pa, rl, args, aside, execs, printed, error, handed,
                    initCalls, initLog >>

\* line 136 with the processor raising
ProcessorRaises ==
    /\ pc = "process"
    /\ recLog' = Append(recLog, Call("process_capture", pf.processors[pf.k].file,
                                     ProcessorArgument(pf), Raised))
    /\ Except([kind |-> "error", in |-> "process_capture", file |-> pf.filename,
               rec |-> pf.n, left |-> rl.arg.len - rl.i])
    /\ UNCHANGED << retval, self, args, aside, execs, handed, initCalls,
                    initLog, fileLog >>

\* ------------------------------------------------------------------ main
\* lines 198-204: main() calls process_args and drops what it returns; the
\* interpreter exits with status 0 when main returns, and with status 1 when
\* an exception leaves it
ExitCode == IF pc = "raised" THEN 1 ELSE 0

\* ------------------------------------------------------ specification
Next ==
    \/ ProcessArgs
    \/ ReadCaptureFilterArg
    \/ LoadCaptureFilter
    \/ LoadCaptureFilterRaises
    \/ ReadProcessCaptureArg
    \/ LoadProcessCapture
    \/ LoadProcessCaptureRaises
    \/ SelectMode
    \/ NextFormat
    \/ LoopDone
    \/ FileArg
    \/ FileArgGlobRaises
    \/ FileListUnbound
    \/ NextFile
    \/ InitFilterScript
    \/ InitFilterScriptRaises
    \/ InitProcessorScript
    \/ InitProcessorScriptRaises
    \/ PullRecord
    \/ StreamExhausted
    \/ StreamRaises
    \/ AdaptRecord
    \/ AdaptRaises
    \/ ApplyFilter
    \/ FilterRaises
    \/ ApplyProcessor
    \/ ProcessorRaises

Spec == Init /\ [][Next]_vars

\* the driver is one thread that runs until process_args returns or raises:
\* it does not stop half way
FairSpec == Spec /\ WF_vars(Next)

\* -------------------------------------------- the loader on its own
\* bindings a source unit may hold at top level: two classes that share a
\* method name, two functions, one of them named like a method, and a
\* value that is neither
UnitBindings ==
    { Binding("Plugin", "type", {Attr("capture_filter", FALSE, TRUE),
                                 Attr("_connect", TRUE, TRUE),
                                 Attr("name", FALSE, FALSE)}),
      Binding("Other", "type", {Attr("capture_filter", FALSE, TRUE),
                                Attr("process_capture", FALSE, TRUE)}),
      Binding("capture_filter", "function", {}),
      Binding("initialize", "function", {}),
      Binding("VERSION", "other", {}) }

\* local_ns is a dict: its keys are distinct, in definition order
Units ==
    {u \in SeqsUpTo(UnitBindings, MaxBindings) :
        \A i, j \in DOMAIN u : i # j => u[i].key # u[j].key}

UnitPath == "unit.py"

LoaderInit ==
    /\ pc = "unit"
    /\ local_ns \in Units
    /\ retval = NoneVal
    /\ scripts = [p \in {} |-> NoneVal]
    /\ capture_filter_scripts = << >>
    /\ process_capture_scripts = << >>
    /\ pa = NoLocals
    /\ rl = NoLocals
    /\ pf = NoLocals
    /\ args = [capture_filter |-> Unbound, process_capture |-> Unbound]
    /\ execs = [p \in ScriptPaths |-> 0]
    /\ printed = 0
    /\ error = NoneVal
    /\ handed = 0
    /\ initCalls = [p \in ScriptPaths |-> 0]
    /\ initLog = << >>
    /\ fileLog = NoFileLog
    /\ recLog = << >>
    /\ stderr = ""
    /\ db_missing = FALSE

\* lines 147-170 and 176 for a unit that compiles and runs: the handle is
\* built from the unit's bindings and stored under its path
LoadUnit ==
    /\ pc = "unit"
    /\ scripts' = Put(scripts, UnitPath, Inspect(NewScriptEnv(UnitPath), local_ns, 1))
    /\ pc' = "unit_loaded"
    /\ UNCHANGED << retval, capture_filter_scripts, process_capture_scripts,
                    pa, rl, pf, args, aside, history >>

LoaderNext == LoadUnit

LoaderSpec == LoaderInit /\ [][LoaderNext]_vars

\* ------------------------------------------------------------ claims
Range(seq) == {seq[i] : i \in DOMAIN seq}

\* the scripts listed in at least one role, once loaded
Registered == Range(capture_filter_scripts) \cup Range(process_capture_scripts)

Supplies(p, name) == name \in DOMAIN scripts[p].functions

\* initialize calls made to script p for the current file
InitCount(p) == Cardinality({i \in DOMAIN initLog : initLog[i].who = p})

InFile == pc \in {"init_filters", "init_processors", "pull", "adapt", "filter", "process"}

UnderTry == {"stream", "adapt", "capture_filter", "process_capture"}

\* the loops over the scripts (lines 109-124) have run to their end for the
\* current file
Initialized ==
    \/ pc \in {"pull", "adapt", "filter", "process"}
    \/ fileLog.completed
    \/ pc = "raised" /\ error.in \in UnderTry

\* between two files, or after the last one
BetweenFiles == pc \in {"next_format", "next_filearg", "next_file", "returned"}

\* C1: for a file handed to parse_one_file, a script that supplies
\* initialize and is listed in at least one role is initialized at most once,
\* always with that file's path; once the loops over the scripts have run
\* to their end it has been initialized exactly once, also when it is listed
\* as filter and as processor; and over the run it has been initialized as
\* many times as files were handed to parse_one_file.
C1_InitializeOncePerFile ==
    /\ \A i \in DOMAIN initLog : initLog[i].arg = fileLog.file
    /\ \A p \in Registered :
          Supplies(p, "initialize") =>
             /\ InitCount(p) <= 1
             /\ Initialized => InitCount(p) = 1
             /\ Initialized \/ BetweenFiles => initCalls[p] = handed

\* a script listed in both roles, two files handed, the second one streaming
C1_Witness ==
    /\ "both.py" \in Range(capture_filter_scripts)
    /\ "both.py" \in Range(process_capture_scripts)
    /\ handed = 2
    /\ pc = "pull"
    /\ InitCount("both.py") = 1
    /\ initCalls["both.py"] = 2

\* the scripts of a list that supply a capability, in list order: the
\* capabilities parse_one_file is to call, by script
Suppliers(list, name) ==
    LET Has(p) == Supplies(p, name) IN SelectSeq(list, Has)

FilterOrder == Suppliers(capture_filter_scripts, "capture_filter")

ProcessorOrder == Suppliers(process_capture_scripts, "process_capture")

IsFilterCall(e) == e.op = "capture_filter"

IsProcessorCall(e) == e.op = "process_capture"

\* a call that returned, and returned something falsy
ReturnedFalsy(e) == e.ret # Raised /\ ~Truthy(e.ret)

ReturnedTruthy(e) == e.ret # Raised /\ Truthy(e.ret)

LastCall == recLog[Len(recLog)]

\* C2: a falsy return of a filter is the last call made for its record (no
\* later filter, no processor), and it ends the record only: the driver goes
\* on to ask the stream for the next record, so whenever it does, every
\* record pulled so far was adapted and, with a filter active, run through
\* the filters, each one skipped or passed on; the same holds at the end of
\* the file.
C2_FalsyFilterSkipsRecordOnly ==
    /\ \A i \in DOMAIN recLog :
          IsFilterCall(recLog[i]) /\ ReturnedFalsy(recLog[i]) =>
             /\ i = Len(recLog)
             /\ pc = "pull"
             /\ pf.skip
    /\ pc = "pull" \/ fileLog.completed =>
          /\ fileLog.adapted = fileLog.pulled
          /\ fileLog.skipped + fileLog.passed = fileLog.pulled
          /\ FilterOrder # << >> => fileLog.filtered = fileLog.pulled
          /\ FilterOrder = << >> => fileLog.skipped = 0

\* two filters active; one record of the file was skipped and a later one
\* went through both filters and a processor
C2_Witness ==
    /\ pc = "pull"
    /\ Len(FilterOrder) = 2
    /\ fileLog.skipped = 1
    /\ fileLog.passed = 1
    /\ recLog # << >>
    /\ IsProcessorCall(LastCall)

\* the capture the adapter made of the current record: the first call
\* logged for a record is the adapter's
AdaptedCapture == recLog[1].ret

\* C3 as claimed: a filter that follows a filter which returned a truthy
\* value is called with that value.
C3_FiltersChained ==
    \A i \in DOMAIN recLog :
       /\ i < Len(recLog)
       /\ IsFilterCall(recLog[i])
       /\ IsFilterCall(recLog[i + 1])
       /\ ReturnedTruthy(recLog[i])
       => recLog[i + 1].arg = recLog[i].ret

\* C3, amended: filters are not chained.  Every filter of a record is called
\* with the capture the adapter made of the record, whatever the filters
\* before it returned; a return value decides by its truthiness whether the
\* next filter is called and is not handed on.
C3_FiltersReceiveAdaptedCapture ==
    \A i \in DOMAIN recLog :
       IsFilterCall(recLog[i]) =>
          /\ recLog[1].op = "adapt"
          /\ recLog[i].arg = AdaptedCapture
          /\ i > 1 /\ IsFilterCall(recLog[i - 1]) =>
                /\ ReturnedTruthy(recLog[i - 1])
                /\ recLog[i].arg = recLog[i - 1].arg

\* a second filter was called after the first returned a capture that is not
\* the one it was given
C3_Witness ==
    /\ Len(recLog) >= 3
    /\ IsFilterCall(recLog[2])
    /\ IsFilterCall(recLog[3])
    /\ ReturnedTruthy(recLog[2])
    /\ recLog[2].ret # recLog[2].arg

\* what the last active filter returned for the current record
LastFilterReturn == recLog[1 + Len(FilterOrder)].ret

\* C4 as claimed: with a filter active, every processor of a record that is
\* not skipped is called with what the last filter returned.
C4_ProcessorsReceiveFilterReturn ==
    \A i \in DOMAIN recLog :
       IsProcessorCall(recLog[i]) /\ FilterOrder # << >> =>
          recLog[i].arg = LastFilterReturn

\* C4, amended: every processor of a record that is not skipped is called
\* with the capture the adapter made of the record, with or without filters
\* active and whatever the filters returned.
C4_ProcessorsReceiveAdaptedCapture ==
    \A i \in DOMAIN recLog :
       IsProcessorCall(recLog[i]) =>
          /\ recLog[1].op = "adapt"
          /\ recLog[i].arg = AdaptedCapture

\* a processor was called for a record whose last filter returned a capture
\* that is not the adapter's
C4_Witness ==
    /\ recLog # << >>
    /\ IsProcessorCall(LastCall)
    /\ FilterOrder # << >>
    /\ ReturnedTruthy(recLog[1 + Len(FilterOrder)])
    /\ LastFilterReturn # AdaptedCapture

ProcessorCalls == SelectSeq(recLog, IsProcessorCall)

FilterCalls == SelectSeq(recLog, IsFilterCall)

\* the current record is done and was not skipped
RecordPassed ==
    /\ pc = "pull"
    /\ recLog # << >>
    /\ ~(IsFilterCall(LastCall) /\ ReturnedFalsy(LastCall))

\* C5: processors are not chained.  The processor calls of a record go to
\* the active processors, one call each; all are made with the same capture;
\* none is made with what the call before it returned; a falsy return does
\* not stop the calls: when a record that is not skipped is done, every
\* active processor has been called exactly once.
C5_ProcessorsNotChained ==
    LET calls == ProcessorCalls
        order == ProcessorOrder
    IN /\ Len(calls) <= Len(order)
       /\ \A m \in DOMAIN calls :
             /\ calls[m].who = order[m]
             /\ calls[m].arg = calls[1].arg
             /\ m > 1 =>
                   /\ calls[m - 1].ret # Raised
                   /\ calls[m].arg # calls[m - 1].ret
       /\ RecordPassed => Len(calls) = Len(order)

\* a record is done for which the first of two processors returned None and
\* the second was called all the same
C5_Witness ==
    /\ RecordPassed
    /\ Len(ProcessorCalls) = 2
    /\ ReturnedFalsy(ProcessorCalls[1])
    /\ ReturnedTruthy(ProcessorCalls[2])

\* the scripts listed under a flag of the command line, in the order given
Listed(flag) == IF args[flag].kind = "list" THEN args[flag].items ELSE << >>

ListedFilterOrder == Suppliers(Listed("capture_filter"), "capture_filter")

ListedProcessorOrder == Suppliers(Listed("process_capture"), "process_capture")

Who(calls) == [i \in DOMAIN calls |-> calls[i].who]

IsPrefix(s, t) == Len(s) <= Len(t) /\ \A i \in DOMAIN s : s[i] = t[i]

Streaming == pc \in {"pull", "adapt", "filter", "process"}

\* C6: for every record of every file, the filter calls go to the scripts
\* listed under --capture-filter that supply capture_filter, in the order
\* listed, then the processor calls to the scripts listed under
\* --process-capture that supply process_capture, in the order listed; no
\* processor is called before every filter has been; and the lists
\* parse_one_file builds for a file are in those two orders, which depend
\* on the command line alone.
C6_CallsInListedOrder ==
    LET filters == ListedFilterOrder
        processors == ListedProcessorOrder
        filtered == Who(FilterCalls)
        processed == Who(ProcessorCalls)
    IN /\ recLog # << >> =>
             /\ recLog[1].op = "adapt"
             /\ IsPrefix(filtered, filters)
             /\ IsPrefix(processed, processors)
             /\ \A i, j \in DOMAIN recLog :
                   IsFilterCall(recLog[i]) /\ IsProcessorCall(recLog[j]) => i < j
             /\ processed # << >> => filtered = filters
       /\ Streaming =>
             /\ [i \in DOMAIN pf.filters |-> pf.filters[i].file] = filters
             /\ [i \in DOMAIN pf.processors |-> pf.processors[i].file] = processors
             /\ \A i \in DOMAIN pf.filters : pf.filters[i].name = "capture_filter"
             /\ \A i \in DOMAIN pf.processors : pf.processors[i].name = "process_capture"

\* in the second file of a run, a record went through the filters of two
\* scripts and then the processors of two scripts, in the orders listed
C6_Witness ==
    /\ handed = 2
    /\ RecordPassed
    /\ Listed("capture_filter") = << "both.py", "filt.py" >>
    /\ Listed("process_capture") = << "proc.py", "both.py" >>
    /\ Who(recLog) = << "adapter", "both.py", "filt.py", "proc.py", "both.py" >>

\* load_script_file calls that returned a handle for path p: one for each
\* place p holds in the two lists of handles
Listings(p) ==
    Cardinality({i \in DOMAIN capture_filter_scripts : capture_filter_scripts[i] = p})
    + Cardinality({i \in DOMAIN process_capture_scripts : process_capture_scripts[i] = p})

\* the handle the one load of a source that compiles and runs builds
Loaded ==
    [p \in {q \in DOMAIN ScriptFiles : ~ScriptFiles[q].raises} |-> LoadedEnv(p)]

\* C7: load_script_file is idempotent by path.  However often a path was
\* loaded, and whatever files were run since, its source was compiled and
\* run once, every handle returned for it is the one entry of the cache,
\* and that entry holds the path, the instance and the capabilities the one
\* load gave it.
C7_LoadOncePerPath ==
    /\ \A p \in ScriptPaths : execs[p] <= 1
    /\ Registered \subseteq DOMAIN scripts
    /\ \A p \in DOMAIN scripts :
          /\ Listings(p) >= 1
          /\ execs[p] = 1
          /\ scripts[p].filename = p
          /\ p \in DOMAIN Loaded
          /\ scripts[p].instance = Loaded[p].instance
          /\ scripts[p].functions = Loaded[p].functions

\* a path loaded three times, under both flags, and two files run since
C7_Witness ==
    /\ Listings("both.py") = 3
    /\ execs["both.py"] = 1
    /\ handed = 2
    /\ pc = "returned"

\* the run ended with an exception raised at `where`
Failed(where) == error.kind = "error" /\ error.in \in where

\* the exception left process_args and nothing runs after it
RunOver == pc = "raised" /\ ~ENABLED Next

\* C8: when capture_filter raises at record k of a file, the error is
\* printed once and leaves parse_one_file and process_args; the raising call
\* is the last call of the run: records up to k were pulled and adapted,
\* none after k is pulled, adapted, filtered or processed, and the file is
\* not completed.
C8_FilterErrorEndsRun ==
    Failed({"capture_filter"}) =>
       /\ RunOver
       /\ printed = 1
       /\ IsFilterCall(LastCall) /\ LastCall.ret = Raised
       /\ fileLog.file = error.file
       /\ fileLog.pulled = error.rec
       /\ fileLog.adapted = error.rec
       /\ fileLog.skipped + fileLog.passed = error.rec - 1
       /\ ~fileLog.completed

\* the second of two filters raised at the first record of a file, with one
\* more file argument to come
C8_Witness ==
    /\ Failed({"capture_filter"})
    /\ error.rec = 1
    /\ error.left = 1
    /\ Len(FilterCalls) = 2
    /\ printed = 1

\* C9: when the parser stream raises, the error is printed once and leaves
\* parse_one_file and process_args; the run is over: the records pulled
\* before it stay the only ones pulled, the file is not completed, and no
\* other file is handed to parse_one_file, initialized or parsed.
C9_StreamErrorEndsRun ==
    Failed({"stream"}) =>
       /\ RunOver
       /\ printed = 1
       /\ fileLog.file = error.file
       /\ fileLog.pulled = error.rec - 1
       /\ fileLog.adapted = fileLog.pulled
       /\ fileLog.skipped + fileLog.passed = fileLog.pulled
       /\ ~fileLog.completed
       /\ handed >= 1
       /\ \A p \in Registered : initCalls[p] <= handed

\* the stream of the first file raised at its second record, with one more
\* file argument to come
C9_Witness ==
    /\ Failed({"stream"})
    /\ error.rec = 2
    /\ error.left = 1
    /\ handed = 1
    /\ fileLog.pulled = 1

\* C10: when load_script_file raises (the source cannot be opened, or does
\* not compile or run), the error leaves process_args and the run is over:
\* the path is not in the cache, which holds what the loads before it put
\* there; an error of the source was printed once; no file was handed to
\* parse_one_file and no initialize, capture_filter or process_capture was
\* called.
C10_LoadErrorEndsRun ==
    Failed({"open", "exec"}) =>
       /\ RunOver
       /\ error.file \notin DOMAIN scripts
       /\ DOMAIN scripts = Registered
       /\ \A p \in DOMAIN scripts : execs[p] = 1
       /\ printed = IF error.in = "exec" THEN 1 ELSE 0
       /\ handed = 0
       /\ \A p \in ScriptPaths : initCalls[p] = 0
       /\ initLog = << >>
       /\ recLog = << >>
       /\ fileLog = NoFileLog

\* a source that does not run, listed under --process-capture after a
\* script was loaded under --capture-filter
C10_Witness ==
    /\ Failed({"exec"})
    /\ error.file = "bad.py"
    /\ capture_filter_scripts = << "both.py" >>
    /\ DOMAIN scripts = {"both.py"}
    /\ printed = 1

\* nothing of the run has been done: no script read from the command line or
\* loaded, no capability called, no file handed to parse_one_file
NothingDone ==
    /\ args = [capture_filter |-> Unbound, process_capture |-> Unbound]
    /\ DOMAIN scripts = {}
    /\ capture_filter_scripts = << >>
    /\ process_capture_scripts = << >>
    /\ \A p \in ScriptPaths : execs[p] = 0 /\ initCalls[p] = 0
    /\ handed = 0
    /\ initLog = << >>
    /\ recLog = << >>
    /\ fileLog = NoFileLog

\* C11: when --db names a file that does not exist, with the suffix typed
\* or appended, and --create is not given, process_args reports it on stderr
\* and returns 1 at once, whatever the other flags: nothing was loaded,
\* called or parsed, and nothing runs afterwards.
C11_MissingDbDoesNothing ==
    db_missing =>
       /\ pc = "returned"
       /\ retval = PyInt(1)
       /\ stderr = "DB file does not exist"
       /\ error = NoneVal
       /\ NothingDone
       /\ ~ENABLED Next

\* process_args returned 1 for a database that is missing
C11_Witness ==
    /\ db_missing
    /\ pc = "returned"
    /\ retval = PyInt(1)
    /\ stderr # ""

\* C12 as claimed: the exit status of the program started through main()
\* is the status process_args computed, 1 for a missing database and 0
\* otherwise.
C12_ExitCodeIsStatus ==
    pc = "returned" => ExitCode = retval.n

\* C13 as claimed: a file argument that is no existing path, or a glob,
\* raises no error and contributes no file: every file handed to
\* parse_one_file is the file argument the loop stands at, which exists.
C13_MissingPathContributesNothing ==
    /\ ~Failed({"glob", "file_list"})
    /\ pc = "next_file" =>
          /\ PathExists(rl.filearg)
          /\ rl.file_list = List(<< rl.filearg >>)

\* no script is listed under either flag
NoPlugins == capture_filter_scripts = << >> /\ process_capture_scripts = << >>

\* a file is handed to parse_one_file, or was the last one handed
FileRun == fileLog.file # ""

\* with no script listed: no capability is called, the one call logged for a
\* record is the adapter's, made with the record the stream yielded last,
\* and whenever the stream is asked again, and at the end of the file,
\* every record pulled was adapted and none skipped
NoPluginsNoCalls ==
    FileRun /\ NoPlugins =>
       /\ initLog = << >>
       /\ \A p \in ScriptPaths : initCalls[p] = 0
       /\ Len(recLog) <= 1
       /\ recLog # << >> =>
             /\ recLog[1].op = "adapt"
             /\ recLog[1].arg = RawRecord(fileLog.file, fileLog.pulled)
       /\ pc = "pull" \/ fileLog.completed =>
             /\ fileLog.adapted = fileLog.pulled
             /\ fileLog.passed = fileLog.pulled
             /\ fileLog.skipped = 0
             /\ fileLog.filtered = 0

\* C14: for a file run with no filter and no processor listed, every record
\* the stream yields is adapted, in stream order, no initialize,
\* capture_filter or process_capture is called, and the run of the file
\* ends: it completes when the stream is exhausted, unless the stream or
\* the adapter raises.
C14_NoPluginsRunCompletes ==
    /\ []NoPluginsNoCalls
    /\ (NoPlugins /\ pc \in {"pull", "adapt"})
          ~> (fileLog.completed \/ Failed({"stream", "adapt"}))

\* a file of two records completed with no script listed
C14_Witness ==
    /\ NoPlugins
    /\ fileLog.completed
    /\ fileLog.pulled = 2
    /\ fileLog.adapted = 2
    /\ error = NoneVal

Capabilities == {"initialize", "capture_filter", "process_capture"}

\* how many places of a list hold a script that supplies a capability
Places(list, name) ==
    Cardinality({i \in DOMAIN list : Supplies(list[i], name)})

\* C15: a capability a script does not supply is never called and never an
\* error.  Every initialize, capture_filter and process_capture call, the
\* raising ones included, is made to a script that supplies it; a script
\* listed as filter without capture_filter adds no filter and one listed as
\* processor without process_capture adds no processor; a record is skipped
\* only by the falsy return of a filter that was called; and an error that
\* ends a file run comes from a call that was made, from the stream or from
\* the adapter.
C15_MissingCapabilityIsNoOp ==
    /\ \A i \in DOMAIN initLog : Supplies(initLog[i].who, "initialize")
    /\ \A i \in DOMAIN recLog :
          recLog[i].op \in Capabilities => Supplies(recLog[i].who, recLog[i].op)
    /\ Failed({"initialize"}) => Supplies(error.file, "initialize")
    /\ Streaming =>
          /\ Len(pf.filters) = Places(capture_filter_scripts, "capture_filter")
          /\ Len(pf.processors) = Places(process_capture_scripts, "process_capture")
    /\ pc = "pull" /\ pf.skip =>
          /\ recLog # << >>
          /\ IsFilterCall(LastCall)
          /\ ReturnedFalsy(LastCall)
    /\ pc = "raised" /\ FileRun =>
          error.in \in {"initialize", "stream", "adapt", "capture_filter",
                        "process_capture"}

\* a record went through with a script that has no capture_filter and no
\* initialize listed as filter and a script that has no process_capture
\* listed as processor: the adapter's call is the only one made
C15_Witness ==
    /\ capture_filter_scripts = << "proc.py" >>
    /\ process_capture_scripts = << "filt.py" >>
    /\ pc = "pull"
    /\ fileLog.passed = 1
    /\ Len(recLog) = 1
    /\ Who(initLog) = << "filt.py" >>

\* C16 as claimed: a file run is aborted only by an error raised while
\* pulling from the stream; an error in initialize, in the adapter, in a
\* filter or in a processor does not end it.
C16_OnlyStreamErrorAborts ==
    pc = "raised" /\ FileRun => error.in = "stream"

\* C16, amended: a file run ends in one of two ways.  It is completed
\* exactly by the stream being exhausted, with no error raised and every
\* record pulled adapted and skipped or passed on.  It is aborted by any
\* error raised in it, and the error ends the whole run: an error of the
\* stream, the adapter, a filter or a processor, which the except clause of
\* parse_one_file prints once and raises again, or an error of an
\* initialize call, which is outside the try and leaves unprinted.  While
\* the file is run it is neither completed nor aborted.
C16_FileRunEnds ==
    /\ fileLog.completed =>
          /\ error = NoneVal
          /\ pc \in {"next_format", "next_filearg", "next_file"}
          /\ pf = NoLocals
          /\ fileLog.adapted = fileLog.pulled
          /\ fileLog.skipped + fileLog.passed = fileLog.pulled
    /\ pc = "raised" /\ FileRun =>
          /\ error.in \in {"initialize"} \cup UnderTry
          /\ ~fileLog.completed
          /\ printed = IF error.in \in UnderTry THEN 1 ELSE 0
          /\ RunOver
    /\ InFile => ~fileLog.completed /\ error = NoneVal

\* a processor raised at the second record of a file: the file run is
\* aborted, and the stream did not raise
C16_Witness ==
    /\ pc = "raised"
    /\ FileRun
    /\ error.in = "process_capture"
    /\ error.rec = 2
    /\ printed = 1
    /\ ~fileLog.completed

\* the handle the loader built of the unit
UnitEnv == scripts[UnitPath]

UnitTypes == {i \in DOMAIN local_ns : local_ns[i].type = "type"}

UnitFunctions == {i \in DOMAIN local_ns : local_ns[i].type = "function"}

\* the names of the public methods of the class bound at place i
PublicMethods(i) ==
    {a.name : a \in {x \in local_ns[i].attrs : x.method /\ ~x.underscore}}

\* binding i gives the capability map an entry named n
Provides(i, n) ==
    \/ i \in UnitFunctions /\ local_ns[i].key = n
    \/ i \in UnitTypes /\ n \in PublicMethods(i)

\* what binding i puts under name n
Provided(i, n) ==
    IF i \in UnitTypes
    THEN Callable("method", local_ns[i].key, n, UnitPath)
    ELSE Callable("function", "local_ns", n, UnitPath)

Last(S) == CHOOSE i \in S : \A j \in S : j <= i

\* C17 as claimed: with exactly one type in the unit the capability map is
\* exactly the public methods of its instance; with none, or with two or
\* more, it is the top-level functions and no type is instantiated.
C17_TwoCaseRule ==
    pc = "unit_loaded" =>
       IF Cardinality(UnitTypes) = 1
       THEN LET t == Last(UnitTypes) IN
            /\ UnitEnv.instance = [kind |-> "instance", of |-> local_ns[t].key]
            /\ DOMAIN UnitEnv.functions = PublicMethods(t)
            /\ \A n \in PublicMethods(t) : UnitEnv.functions[n] = Provided(t, n)
       ELSE /\ UnitEnv.instance = FalseVal
            /\ DOMAIN UnitEnv.functions = {local_ns[i].key : i \in UnitFunctions}
            /\ \A i \in UnitFunctions :
                  UnitEnv.functions[local_ns[i].key] = Provided(i, local_ns[i].key)

\* C17, amended: there is one rule, applied to every top-level binding in
\* definition order.  Every type is instantiated and the public methods of
\* its instance are put in the capability map under their names; every
\* top-level function is put in the map under its name, whether or not the
\* unit holds a type; where two bindings give the same name the later one
\* stays; nothing else is in the map (no underscore-prefixed method, no
\* attribute that is not a method, no other value); and the handle keeps
\* the instance of the last type, or False when the unit holds none.
C17_EveryBindingCollected ==
    pc = "unit_loaded" =>
       /\ UnitEnv.filename = UnitPath
       /\ DOMAIN UnitEnv.functions =
             {n \in Capabilities \cup {"_connect", "name", "VERSION", "Plugin", "Other"} :
                 \E i \in DOMAIN local_ns : Provides(i, n)}
       /\ \A n \in DOMAIN UnitEnv.functions :
             UnitEnv.functions[n] =
                Provided(Last({i \in DOMAIN local_ns : Provides(i, n)}), n)
       /\ UnitEnv.instance =
             IF UnitTypes = {} THEN FalseVal
             ELSE [kind |-> "instance", of |-> local_ns[Last(UnitTypes)].key]

\* a unit of a function and two classes was loaded: the map holds the
\* function and the methods of both classes, the shared name bound to the
\* later class
C17_Witness ==
    /\ pc = "unit_loaded"
    /\ Len(local_ns) = 3
    /\ local_ns[1].key = "initialize"
    /\ local_ns[2].key = "Plugin"
    /\ local_ns[3].key = "Other"
    /\ DOMAIN UnitEnv.functions = Capabilities
    /\ UnitEnv.functions["capture_filter"].of = "Other"

\* the driver is in parse_one_file, or about to call it
InParseOneFile == pc = "next_file" \/ InFile

\* a handle with its flag set to `flag`
WithFlag(script_env, flag) == [script_env EXCEPT !.initialized = flag]

\* C18: no step of parse_one_file adds or removes a cache entry, changes
\* the source path, the validity flag, the instance or the capability map
\* of a handle, or changes the list of filter scripts or of processor
\* scripts: the 'initialized' flag of a handle is all it writes.
C18_OnlyFlagsWritten ==
    [][InParseOneFile =>
          /\ DOMAIN scripts' = DOMAIN scripts
          /\ \A p \in DOMAIN scripts :
                WithFlag(scripts'[p], scripts[p].initialized) = scripts[p]
          /\ capture_filter_scripts' = capture_filter_scripts
          /\ process_capture_scripts' = process_capture_scripts]_vars

\* in the second file of a run, a script's flag is set and another's is
\* not, and both handles are otherwise what their load built
C18_Witness ==
    /\ handed = 2
    /\ pc = "pull"
    /\ DOMAIN scripts = {"both.py", "proc.py"}
    /\ scripts["both.py"] = WithFlag(Loaded["both.py"], TRUE)
    /\ scripts["proc.py"] = WithFlag(Loaded["proc.py"], FALSE)

\* the scripts parse_one_file is to initialize for a file, in order: those
\* of the filter list, then those of the processor list, each at its first
\* place, when it supplies initialize
InitOrder ==
    LET all == capture_filter_scripts \o process_capture_scripts
        First(i) == /\ Supplies(all[i], "initialize")
                    /\ \A j \in 1..(i - 1) : all[j] # all[i]
        places == SelectSeq([i \in DOMAIN all |-> i], First)
    IN [k \in DOMAIN places |-> all[places[k]]]

\* C19: for every file the initialize calls are made in the order of the
\* filter list and then of the processor list; while they are made the
\* flags set are those of the calls made for this file, so the reset came
\* first, and no record has been asked for and no capture_filter or
\* process_capture called; all of them are made before the stream is first
\* asked for a record; and an initialize that raises ends the run with no
\* record of the file pulled.
C19_InitializeBeforeStream ==
    LET order == InitOrder
        inits == Who(initLog)
    IN /\ IsPrefix(inits, order)
       /\ pc \in {"init_filters", "init_processors"} =>
             /\ fileLog.pulled = 0
             /\ recLog = << >>
       /\ InFile =>
             \A p \in DOMAIN scripts : scripts[p].initialized <=> p \in Range(inits)
       /\ Streaming \/ fileLog.pulled > 0 \/ fileLog.completed => inits = order
       /\ Failed({"initialize"}) =>
             /\ RunOver
             /\ fileLog.pulled = 0
             /\ recLog = << >>
             /\ ~fileLog.completed
             /\ inits[Len(inits)] = error.file

\* the second file of a run is about to be streamed: a script of the
\* filter list and then one of the processor list were initialized, and
\* the script listed twice was not initialized again
C19_Witness ==
    /\ handed = 2
    /\ pc = "pull"
    /\ fileLog.pulled = 0
    /\ capture_filter_scripts = << "filt.py" >>
    /\ process_capture_scripts = << "both.py", "filt.py" >>
    /\ Who(initLog) = << "filt.py", "both.py" >>

\* the places of a list that hold script p
Count(list, p) == Cardinality({i \in DOMAIN list : list[i] = p})

\* the calls of capability op made to script p for the current record
CallsTo(p, op) ==
    Cardinality({i \in DOMAIN recLog : recLog[i].op = op /\ recLog[i].who = p})

\* the calls of op due to p for a record that goes through: one for each
\* place p holds in the list of the role, when p supplies op
Due(list, p, op) == IF Supplies(p, op) THEN Count(list, p) ELSE 0

\* C20: roles are isolated.  For every record, capture_filter of a script
\* is called at most once for each place the script holds in the filter
\* list, so never for a script listed as processor only, and
\* process_capture at most once for each place it holds in the processor
\* list, so never for a script listed as filter only, whatever the script
\* supplies; for a record that is not skipped the numbers are equal.
C20_RolesIsolated ==
    \A p \in DOMAIN scripts :
       LET filtered == CallsTo(p, "capture_filter")
           processed == CallsTo(p, "process_capture")
       IN /\ filtered <= Due(capture_filter_scripts, p, "capture_filter")
          /\ processed <= Due(process_capture_scripts, p, "process_capture")
          /\ RecordPassed =>
                /\ filtered = Due(capture_filter_scripts, p, "capture_filter")
                /\ processed = Due(process_capture_scripts, p, "process_capture")

\* a record went through with a script that supplies both capabilities
\* listed twice as filter and not as processor: its capture_filter was
\* called twice and its process_capture not at all
C20_Witness ==
    /\ RecordPassed
    /\ capture_filter_scripts = << "both.py", "both.py" >>
    /\ process_capture_scripts = << "proc.py" >>
    /\ CallsTo("both.py", "capture_filter") = 2
    /\ CallsTo("both.py", "process_capture") = 0
    /\ CallsTo("proc.py", "process_capture") = 1

====
